---------------------------- MODULE Spec2Model ----------------------------
(***************************************************************************)
(* The cook screen of yeschef-web (src/yeschef-web/src/pages/Cook.tsx)     *)
(* as a state machine: the Cook component (bootstrap, token acquisition    *)
(* with retry, pause / end), the CookUI component mounted once a token is  *)
(* held (step cursor, elapsed counter, auto-save listeners, microphone     *)
(* and camera controls, camera_state messages), the localStorage           *)
(* checkpoint record of the recipe, and the token endpoint seen through    *)
(* api.getLiveToken (src/unnamed/part_000).                                *)
(*                                                                         *)
(* JavaScript runs one callback at a time, so every action is one          *)
(* callback run to its next await (or to its end) together with the        *)
(* React render that follows it.  The start controls are the exception:    *)
(* their handlers can run again before disabled={fetchingToken} applies,   *)
(* the rapid double click that fetchingTokenRef is declared for.  A value  *)
(* that may be null is a sequence of length 0 (null) or 1.                 *)
(***************************************************************************)
EXTENDS Integers, Sequences, FiniteSets, Bags, TLC

VARIABLES
    \* ---- Cook component (Cook.tsx 85-96) ----
    mounted,            \* the Cook component instance exists
    loading,            \* useState(true)
    recipe,             \* TRUE once setRecipe(r) ran (recipe !== null)
    tokenData,          \* null or the token record
    fetchingToken,      \* useState(false)
    error,              \* null or the message shown
    sessionEnded,       \* useState(false)
    retryAttempt,       \* useState(0)
    resumeFromStep,     \* useState<number|null>(null)
    savedSession,       \* useState<SavedSession|null>(null)
    fetchingTokenRef,   \* useRef(false)
    cbResumeFromStep,   \* resumeFromStep as captured by the memoised startVoiceSession
    navPending,         \* a setTimeout(navigate, 300) is pending
    \* ---- startVoiceSession ----
    acq,                \* the activations that passed the guard and have not returned
    failedRuns,         \* what each activation that ended in a terminal error did
    orphans,            \* the activations of Cook instances that were unmounted since
    \* ---- CookUI component (Cook.tsx 459-475, 539-557) ----
    currentStep,
    elapsedSeconds,
    stepRef,
    elapsedRef,
    connectionState,
    timerActive,        \* timerRef.current names a running interval
    intervals,          \* the running intervals of the timer effect
    timerStarts,        \* the setInterval calls of this CookUI, as SpecSession counts them
    agentState,         \* useVoiceAssistant().state
    \* ---- CookUI device capture (Cook.tsx 460-463, 565-664) ----
    isMuted,            \* useState(false)
    cameraOn,           \* useState(false)
    facingMode,         \* useState("environment")
    flipPending,        \* useState(false)
    cameraPublished,    \* the room holds a camera publication with a track
    cameraEnabled,      \* the device camera is enabled and its track is published
    ops,                \* bag of toggleMute / toggleCamera / flipCamera activations at an await
    lastSent,           \* the publishData calls of the latest step that can send
    lastDone,           \* null or the device call answered last and how
    \* ---- environment ----
    storage,            \* localStorage["yeschef-session-" + id]: null or a SavedSession
    now,                \* Date.now()
    uncaught,           \* an exception left an event handler uncaught
    purged              \* "no"; "purged" once getSavedSession removed an expired record;
                        \* "reloaded" once a later load ran; "no" again at the next save

cookVars == <<mounted, loading, recipe, tokenData, fetchingToken, error, sessionEnded,
              retryAttempt, resumeFromStep, savedSession, fetchingTokenRef,
              cbResumeFromStep, navPending>>
uiVars == <<currentStep, elapsedSeconds, stepRef, elapsedRef, connectionState, timerActive,
            intervals, timerStarts, agentState>>
envVars == <<storage, now, uncaught, purged>>
acqVars == <<acq, failedRuns, orphans>>
capVars == <<isMuted, cameraOn, facingMode, flipPending, cameraPublished, cameraEnabled,
             ops, lastSent, lastDone>>
vars == <<cookVars, acqVars, uiVars, capVars, envVars>>

----------------------------------------------------------------------------
(* Bounds of the model *)

TotalSteps == 2
MaxElapsed == 1
MaxSeqs == 2
MaxOps == 2
MaxTimers == 2

(* Program constants *)

SESSION_EXPIRY_MS == 14400000
LoopAttempts == 3
FinalAttempt == 3
BackoffUnitMs == 1000
RateLimitStatus == 429

RateLimitMsg == "Rate limited - please wait a minute before starting a new session."
ExhaustedMsg == "Failed to start voice session after 3 attempts."
WrapperMsg == "Oops, something went wrong."
FetchRejectMsg == "Failed to fetch"
LoadRecipeMsg == "Could not load recipe"

Null == <<>>
Some(x) == <<x>>
Val(o) == o[1]

Min(a, b) == IF a < b THEN a ELSE b
Max(a, b) == IF a > b THEN a ELSE b

(* Values Date.now() takes: both sides of the expiry boundary. *)
ClockValues == {0, SESSION_EXPIRY_MS, SESSION_EXPIRY_MS + 1}

SavedSessions == [currentStep : 0 .. (TotalSteps - 1),
                  elapsedSeconds : 0 .. MaxElapsed,
                  pausedAt : ClockValues]

ConnectionStates == {"disconnected", "connecting", "connected", "reconnecting", "failed"}

(* voiceAssistant.state as CookUI reads it: the three values it tests, and
   "idle" for every other value. *)
AgentStates == {"idle", "listening", "thinking", "speaking"}

(* What the token endpoint can answer to one request. *)
ResponseKinds == {"ok", "networkError", "http500", "http429"}


----------------------------------------------------------------------------
(* Checkpoint store: getSavedSession, saveSession, clearSavedSession *)

Expired(s, t) == t - s.pausedAt > SESSION_EXPIRY_MS

(* getSavedSession's return value for the stored item raw at clock t. *)
getSavedSession(raw, t) ==
    IF raw = Null THEN Null
    ELSE IF Expired(Val(raw), t) THEN Null
    ELSE raw

storeAfterGet_NoRemove(raw, t) == raw

(* The stored item after getSavedSession ran: an expired record is removed. *)
storeAfterGet(raw, t) ==
    IF raw # Null /\ Expired(Val(raw), t) THEN Null ELSE raw

(* saveSession: localStorage.setItem either stores the record or throws
   (quota exceeded, storage disabled); there is no try around it. *)
saveSession(raw, session, writeOk) ==
    IF writeOk THEN Some(session) ELSE raw

saveSessionThrows(writeOk) == ~writeOk

clearSavedSession_Noop(raw) == raw

clearSavedSession(raw) == Null

----------------------------------------------------------------------------
(* What Cook renders (Cook.tsx 187, 221, 262, 406) *)

ScreenOf(m, l, e, r, t) ==
    IF ~m THEN "none"
    ELSE IF l THEN "loading"
    ELSE IF e # Null \/ ~r THEN "error"
    ELSE IF t = Null THEN "awaitingStart"
    ELSE "active"

Screen == ScreenOf(mounted, loading, error, recipe, tokenData)

(* The start controls of the awaiting-start screen are shown and usable. *)
StartControlsEnabled == Screen = "awaitingStart" /\ ~fetchingToken

----------------------------------------------------------------------------
(* Component state at mount *)

FreshCook(m) ==
    /\ mounted' = m
    /\ loading' = TRUE
    /\ recipe' = FALSE
    /\ tokenData' = Null
    /\ fetchingToken' = FALSE
    /\ error' = Null
    /\ sessionEnded' = FALSE
    /\ retryAttempt' = 0
    /\ resumeFromStep' = Null
    /\ savedSession' = Null
    /\ fetchingTokenRef' = FALSE
    /\ cbResumeFromStep' = Null
    /\ navPending' = FALSE
    /\ acq' = <<>>
    /\ failedRuns' = <<>>

(* CookUI's capture state at mount; the camera_state effect runs once, before
   the room is connected, and sends nothing. *)
FreshCapture ==
    /\ isMuted' = FALSE
    /\ cameraOn' = FALSE
    /\ facingMode' = "environment"
    /\ flipPending' = FALSE
    /\ cameraPublished' = FALSE
    /\ cameraEnabled' = FALSE
    /\ ops' = EmptyBag
    /\ lastSent' = <<>>
    /\ lastDone' = Null

isConnected_FromMount(s) == TRUE

(* const isConnected = connectionState === "connected" *)
isConnected(s) == s = "connected"

clearTimer_Skipped(n, ref) == n

(* The cleanup of the timer effect: if (timerRef.current)
   clearInterval(timerRef.current).  n counts the running intervals, ref says
   whether timerRef.current names one of them; clearInterval of an id that
   was cleared before does nothing. *)
clearTimer(n, ref) == IF ref THEN n - 1 ELSE n

(* The body of the timer effect: if (isConnected) timerRef.current =
   setInterval(...). *)
startTimer(n, conn) == IF isConnected(conn) THEN n + 1 ELSE n

(* CookUI is not mounted; an unmount runs the cleanup of the timer effect. *)
FreshUI ==
    /\ currentStep' = 0
    /\ elapsedSeconds' = 0
    /\ stepRef' = 0
    /\ elapsedRef' = 0
    /\ connectionState' = "disconnected"
    /\ timerActive' = FALSE
    /\ intervals' = clearTimer(intervals, timerActive)
    /\ timerStarts' = 0
    /\ agentState' = "idle"
    /\ FreshCapture

(* CookUI's props and initial state when LiveKitRoom first renders it. *)
initialStep_OneBased(saved) == IF saved # Null THEN Val(saved).currentStep + 1 ELSE 0

initialStep(saved) == IF saved # Null THEN Val(saved).currentStep ELSE 0

initialElapsed_Zero(saved) == 0

initialElapsed(saved) == IF saved # Null THEN Val(saved).elapsedSeconds ELSE 0

MountUI(saved) ==
    /\ currentStep' = initialStep(saved)
    /\ elapsedSeconds' = initialElapsed(saved)
    /\ stepRef' = initialStep(saved)
    /\ elapsedRef' = initialElapsed(saved)
    /\ connectionState' = "disconnected"
    /\ timerActive' = isConnected("disconnected")
    /\ intervals' = startTimer(intervals, "disconnected")
    /\ timerStarts' = 0
    /\ agentState' = "idle"
    /\ FreshCapture

(* CookUI is mounted exactly while Cook renders the LiveKitRoom branch. *)
UIFollowsScreen ==
    LET nxt == ScreenOf(mounted', loading', error', recipe', tokenData') IN
    IF nxt = "active" /\ Screen # "active" THEN MountUI(savedSession')
    ELSE IF nxt # "active" /\ Screen = "active" THEN FreshUI
    ELSE UNCHANGED <<uiVars, capVars>>

Init ==
    /\ mounted = TRUE
    /\ loading = TRUE
    /\ recipe = FALSE
    /\ tokenData = Null
    /\ fetchingToken = FALSE
    /\ error = Null
    /\ sessionEnded = FALSE
    /\ retryAttempt = 0
    /\ resumeFromStep = Null
    /\ savedSession = Null
    /\ fetchingTokenRef = FALSE
    /\ cbResumeFromStep = Null
    /\ navPending = FALSE
    /\ acq = <<>>
    /\ failedRuns = <<>>
    /\ orphans = <<>>
    /\ currentStep = 0
    /\ elapsedSeconds = 0
    /\ stepRef = 0
    /\ elapsedRef = 0
    /\ connectionState = "disconnected"
    /\ timerActive = FALSE
    /\ intervals = 0
    /\ timerStarts = 0
    /\ agentState = "idle"
    /\ isMuted = FALSE
    /\ cameraOn = FALSE
    /\ facingMode = "environment"
    /\ flipPending = FALSE
    /\ cameraPublished = FALSE
    /\ cameraEnabled = FALSE
    /\ ops = EmptyBag
    /\ lastSent = <<>>
    /\ lastDone = Null
    /\ storage \in {Null} \cup {Some(s) : s \in SavedSessions}
    /\ now \in ClockValues
    /\ uncaught = FALSE
    /\ purged = "no"

----------------------------------------------------------------------------
(* Bootstrap: the init effect (Cook.tsx 98-124) *)

BootstrapOk ==
    /\ mounted /\ loading
    /\ recipe' = TRUE
    /\ loading' = FALSE
    /\ savedSession' = IF getSavedSession(storage, now) # Null
                       THEN getSavedSession(storage, now)
                       ELSE savedSession
    /\ storage' = storeAfterGet(storage, now)
    /\ purged' = IF storage # Null /\ Expired(Val(storage), now) THEN "purged"
                 ELSE IF purged # "no" THEN "reloaded"
                 ELSE "no"
    /\ UNCHANGED <<mounted, tokenData, fetchingToken, error, sessionEnded, retryAttempt,
                   resumeFromStep, fetchingTokenRef, cbResumeFromStep, navPending>>
    /\ UNCHANGED <<acqVars, uiVars, capVars, now, uncaught>>

BootstrapFail ==
    /\ mounted /\ loading
    /\ error' = Some(LoadRecipeMsg)
    /\ loading' = FALSE
    /\ UNCHANGED <<mounted, recipe, tokenData, fetchingToken, sessionEnded, retryAttempt,
                   resumeFromStep, savedSession, fetchingTokenRef, cbResumeFromStep,
                   navPending>>
    /\ UNCHANGED <<acqVars, uiVars, capVars, envVars>>


----------------------------------------------------------------------------
(* Token acquisition: api.getLiveToken and startVoiceSession *)

(* api.getLiveToken for one answer of the endpoint: the parsed body, or the
   error it throws.  A rejected fetch throws the TypeError of fetch; every
   answer that is not res.ok throws new Error(WrapperMsg), which carries no
   status property. *)
getLiveToken(kind) ==
    IF kind = "ok" THEN [ok |-> TRUE, status |-> Null, message |-> Null]
    ELSE IF kind = "networkError"
    THEN [ok |-> FALSE, status |-> Null, message |-> Some(FetchRejectMsg)]
    ELSE [ok |-> FALSE, status |-> Null, message |-> Some(WrapperMsg)]

(* The body of the token request: resume_from_step is sent only when the
   argument is neither null nor undefined. *)
Request(resume) == <<"req", resume>>
Response(kind) == <<"resp", kind>>
Wait(ms) == <<"wait", ms>>

waitMs_Constant(attempt) == BackoffUnitMs

(* wait(1000 * attempt) *)
waitMs(attempt) == BackoffUnitMs * attempt

GuardBusy_Unchecked == FALSE

(* if (fetchingTokenRef.current) return; *)
GuardBusy == fetchingTokenRef

GuardAfterFinally_Kept == fetchingTokenRef

(* finally { fetchingTokenRef.current = false; ... } *)
GuardAfterFinally == FALSE

(* seq without its i-th element *)
Remove(seq, i) == [k \in 1 .. (Len(seq) - 1) |-> IF k < i THEN seq[k] ELSE seq[k + 1]]

(* startVoiceSession up to its first await.  choice and offered record which
   control called it and the step of the checkpoint offered then. *)
startVoiceSession(choice, offered) ==
    IF GuardBusy
    THEN UNCHANGED <<fetchingTokenRef, fetchingToken, error, retryAttempt, acq>>
    ELSE /\ fetchingTokenRef' = TRUE
         /\ fetchingToken' = TRUE
         /\ error' = Null
         /\ retryAttempt' = 1
         /\ acq' = Append(acq, [pc |-> "inflight", attempt |-> 1,
                                startedBy |-> choice, offered |-> offered,
                                log |-> <<Request(cbResumeFromStep)>>])

(* The start controls (Cook.tsx 308-365).  disabled={fetchingToken} reaches
   the button only with the render after the handler, so a second click can
   still enter a handler (the double click fetchingTokenRef is there for):
   the handlers are enabled whenever their button is rendered.  The sum
   below only caps the activations a run of this specification holds. *)
StartClick ==
    /\ Screen = "awaitingStart" /\ savedSession = Null
    /\ Len(acq) + Len(failedRuns) + Len(orphans) < MaxSeqs
    /\ startVoiceSession("start", Null)
    /\ UNCHANGED <<mounted, loading, recipe, tokenData, sessionEnded, resumeFromStep,
                   savedSession, cbResumeFromStep, navPending>>
    /\ UNCHANGED <<failedRuns, orphans, uiVars, capVars, envVars>>

ResumeClick ==
    /\ Screen = "awaitingStart" /\ savedSession # Null
    /\ Len(acq) + Len(failedRuns) + Len(orphans) < MaxSeqs
    /\ resumeFromStep' = Some(Val(savedSession).currentStep + 1)
    /\ startVoiceSession("resume", Some(Val(savedSession).currentStep))
    /\ UNCHANGED <<mounted, loading, recipe, tokenData, sessionEnded,
                   savedSession, cbResumeFromStep, navPending>>
    /\ UNCHANGED <<failedRuns, orphans, uiVars, capVars, envVars>>

StartFreshClick ==
    /\ Screen = "awaitingStart" /\ savedSession # Null
    /\ Len(acq) + Len(failedRuns) + Len(orphans) < MaxSeqs
    /\ storage' = clearSavedSession(storage)
    /\ savedSession' = Null
    /\ resumeFromStep' = Null
    /\ startVoiceSession("fresh", Null)
    /\ UNCHANGED <<mounted, loading, recipe, tokenData, sessionEnded,
                   cbResumeFromStep, navPending>>
    /\ UNCHANGED <<failedRuns, orphans, uiVars, capVars, now, uncaught, purged>>

(* finally: the guard and the fetching flag are reset. *)
Finally ==
    /\ fetchingTokenRef' = GuardAfterFinally
    /\ fetchingToken' = FALSE

(* A terminal error: setError(msg); return, through finally. *)
EndWithError(i, msg, logged) ==
    /\ error' = Some(msg)
    /\ Finally
    /\ acq' = Remove(acq, i)
    /\ failedRuns' = Append(failedRuns, [startedBy |-> acq[i].startedBy,
                                         offered |-> acq[i].offered,
                                         log |-> logged])

(* await api.getLiveToken(...) returned: setTokenData(tkn); return. *)
TokenSuccess(i) ==
    /\ acq[i].pc = "inflight"
    /\ getLiveToken("ok").ok
    /\ tokenData' = Some("token")
    /\ Finally
    /\ acq' = Remove(acq, i)
    /\ UNCHANGED <<mounted, loading, recipe, error, sessionEnded, retryAttempt,
                   resumeFromStep, savedSession, cbResumeFromStep, navPending>>
    /\ UIFollowsScreen
    /\ UNCHANGED <<failedRuns, orphans, envVars>>

(* await api.getLiveToken(...) threw: the catch block (Cook.tsx 146-166). *)
TokenFailure(i, kind) ==
    /\ acq[i].pc = "inflight"
    /\ ~getLiveToken(kind).ok
    /\ LET err == getLiveToken(kind)
           logged == Append(acq[i].log, Response(kind))
       IN
       IF err.status = Some(RateLimitStatus)
       THEN EndWithError(i, RateLimitMsg, logged)
       ELSE IF acq[i].attempt = FinalAttempt
       THEN EndWithError(i, IF err.message # Null /\ Val(err.message) # ""
                            THEN Val(err.message) ELSE ExhaustedMsg, logged)
       ELSE /\ acq' = [acq EXCEPT ![i].pc = "backoff",
                                  ![i].log = Append(logged, Wait(waitMs(acq[i].attempt)))]
            /\ UNCHANGED <<error, fetchingTokenRef, fetchingToken, failedRuns>>
    /\ UNCHANGED <<mounted, loading, recipe, tokenData, sessionEnded, retryAttempt,
                   resumeFromStep, savedSession, cbResumeFromStep, navPending>>
    /\ UIFollowsScreen
    /\ UNCHANGED <<orphans, envVars>>

(* The backoff timer fired: the loop's next round up to its await. *)
BackoffElapsed(i) ==
    /\ acq[i].pc = "backoff"
    /\ IF acq[i].attempt + 1 <= LoopAttempts
       THEN /\ retryAttempt' = acq[i].attempt + 1
            /\ acq' = [acq EXCEPT ![i].pc = "inflight", ![i].attempt = @ + 1,
                                  ![i].log = Append(@, Request(cbResumeFromStep))]
            /\ UNCHANGED <<fetchingTokenRef, fetchingToken>>
       ELSE /\ Finally
            /\ acq' = Remove(acq, i)
            /\ UNCHANGED retryAttempt
    /\ UNCHANGED <<mounted, loading, recipe, tokenData, error, sessionEnded,
                   resumeFromStep, savedSession, cbResumeFromStep, navPending>>
    /\ UNCHANGED <<failedRuns, orphans, uiVars, capVars, envVars>>

----------------------------------------------------------------------------
(* CookUI: step cursor, elapsed timer, connection state *)

(* setCurrentStep((s) => Math.max(0, s - 1)) *)
prevStep(s) == Max(0, s - 1)

nextStep_Unclamped(s) == s + 1

(* setCurrentStep((s) => Math.min(totalSteps - 1, s + 1)) *)
nextStep(s) == Min(TotalSteps - 1, s + 1)

(* The step buttons; the effects at 470-475 copy the state into the refs.
   The buttons are disabled at the first and the last step (Cook.tsx 892,
   927); the updaters are applied here at every index, as they would be for
   a click queued before the disabled attribute is rendered. *)
PrevStep ==
    /\ Screen = "active"
    /\ currentStep' = prevStep(currentStep)
    /\ stepRef' = currentStep'
    /\ UNCHANGED <<elapsedSeconds, elapsedRef, connectionState, timerActive, intervals,
                   timerStarts, agentState>>
    /\ UNCHANGED <<cookVars, acqVars, capVars, envVars>>

NextStep ==
    /\ Screen = "active"
    /\ currentStep' = nextStep(currentStep)
    /\ stepRef' = currentStep'
    /\ UNCHANGED <<elapsedSeconds, elapsedRef, connectionState, timerActive, intervals,
                   timerStarts, agentState>>
    /\ UNCHANGED <<cookVars, acqVars, capVars, envVars>>

(* The camera_state message (Cook.tsx 581, 619, 623), without its timestamp. *)
CameraStateMsg(on) == [type |-> "camera_state", on |-> on]

(* sendControl as memoised for connection state conn: the publishData calls
   it makes for msg. *)
sendControl(conn, msg) == IF conn # "connected" THEN <<>> ELSE <<msg>>

(* The effect with dependencies [cameraOn, sendControl] (Cook.tsx 580-582):
   it runs after a render in which cameraOn or connectionState changed. *)
CameraStateEffect(onBefore, onAfter, connBefore, connAfter) ==
    IF onBefore # onAfter \/ connBefore # connAfter
    THEN sendControl(connAfter, CameraStateMsg(onAfter))
    ELSE <<>>

(* useConnectionState() reports a new state.  The timer effect (547-557)
   has dependencies [isConnected]: when the flag changed it runs its cleanup
   and then its body; the camera_state effect runs again because sendControl
   is a new function.  LiveKitRoom is given connect={!sessionEnded}. *)
ConnectionStep(s) ==
    /\ Screen = "active"
    /\ s # connectionState
    /\ sessionEnded => s = "disconnected"
    /\ connectionState' = s
    /\ IF isConnected(s) # isConnected(connectionState)
       THEN /\ intervals' = startTimer(clearTimer(intervals, timerActive), s)
            /\ timerActive' = isConnected(s)
       ELSE UNCHANGED <<intervals, timerActive>>
    /\ lastSent' = CameraStateEffect(cameraOn, cameraOn, connectionState, s)
    /\ UNCHANGED <<currentStep, elapsedSeconds, stepRef, elapsedRef, agentState>>
    /\ UNCHANGED <<isMuted, cameraOn, facingMode, flipPending, cameraPublished,
                   cameraEnabled, ops, lastDone>>
    /\ UNCHANGED <<cookVars, acqVars, envVars>>

ConnectionChange(s) ==
    /\ ConnectionStep(s)
    /\ UNCHANGED timerStarts

(* The interval callback: setElapsedSeconds((s) => s + 1). *)
Tick ==
    /\ Screen = "active"
    /\ intervals > 0
    /\ elapsedSeconds < MaxElapsed
    /\ elapsedSeconds' = elapsedSeconds + 1
    /\ elapsedRef' = elapsedSeconds'
    /\ UNCHANGED <<currentStep, stepRef, connectionState, timerActive, intervals,
                   timerStarts, agentState>>
    /\ UNCHANGED <<cookVars, acqVars, capVars, envVars>>

(* What the status card shows (Cook.tsx 539-542, 966-990, 1040-1079): the
   connection row, and every span of the activity row whose condition holds. *)
agentSpeaking(a) == a = "speaking"
agentListening(a) == a = "listening"
agentThinking(a) == a = "thinking"

WaitingShown_WhenIdle(conn, a) ==
    ~agentSpeaking(a) /\ ~agentListening(a) /\ ~agentThinking(a)

WaitingShown(conn, a) ==
    ~agentSpeaking(a) /\ ~agentListening(a) /\ ~agentThinking(a) /\ isConnected(conn)

ActivityLabels(conn, a) ==
    (IF agentSpeaking(a) THEN {"YesChef is speaking"} ELSE {})
    \cup (IF agentListening(a) THEN {"Listening"} ELSE {})
    \cup (IF agentThinking(a) THEN {"Thinking"} ELSE {})
    \cup (IF WaitingShown(conn, a) THEN {"Waiting for YesChef"} ELSE {})

ConnectionLabel(conn) == IF isConnected(conn) THEN "Connected" ELSE "Connecting"

(* useVoiceAssistant() reports a new state of the assistant. *)
AgentChange(a) ==
    /\ Screen = "active"
    /\ a # agentState
    /\ agentState' = a
    /\ UNCHANGED <<currentStep, elapsedSeconds, stepRef, elapsedRef, connectionState,
                   timerActive, intervals, timerStarts>>
    /\ UNCHANGED <<cookVars, acqVars, capVars, envVars>>

----------------------------------------------------------------------------
(* CookUI: microphone, camera and facing mode.  Every handler runs to its
   await; the call it awaits on the room is answered later, with success or
   with a rejection.  The camera and microphone buttons are never disabled,
   so a handler can be entered while earlier calls are still unanswered. *)

(* facingMode === "environment" ? "user" : "environment" *)
Flipped(f) == IF f = "environment" THEN "user" ELSE "environment"

(* One activation suspended at an await, with what its closure captured:
   arg is the boolean it passed to the room, facing the facing mode of its
   capture options, sends whether the sendControl it holds was memoised
   while connected. *)
Op(kind, pc, arg, facing, sends, log) ==
    [kind |-> kind, pc |-> pc, arg |-> arg, facing |-> facing,
     sends |-> sends, log |-> log]

Unpublish == <<"unpublish">>
Stop == <<"stop">>
Capture(f) == <<"capture", f>>

(* The answer to the call op is waiting for. *)
Answered(op, ok) == Some([kind |-> op.kind, pc |-> op.pc, arg |-> op.arg, ok |-> ok])

Suspend(op) == ops (+) SetToBag({op})
Resume(op) == ops (-) SetToBag({op})

(* toggleMute up to its await: setMicrophoneEnabled(isMuted). *)
ToggleMuteClick ==
    /\ Screen = "active"
    /\ BagCardinality(ops) < MaxOps
    /\ ops' = Suspend(Op("mic", "setMicrophoneEnabled", isMuted, "environment", FALSE, <<>>))
    /\ UNCHANGED <<isMuted, cameraOn, facingMode, flipPending, cameraPublished,
                   cameraEnabled, lastSent, lastDone>>
    /\ UNCHANGED <<cookVars, acqVars, uiVars, envVars>>

MutedAfterFailure_Flipped(before, arg) == ~arg

(* catch (err) { console.error(...) }: isMuted is not set. *)
MutedAfterFailure(before, arg) == before

(* setMicrophoneEnabled answered: setIsMuted(!isMuted) with the captured
   isMuted, or the catch block. *)
MicDone(op, ok) ==
    /\ op.kind = "mic"
    /\ isMuted' = IF ok THEN ~op.arg ELSE MutedAfterFailure(isMuted, op.arg)
    /\ ops' = Resume(op)
    /\ lastDone' = Answered(op, ok)
    /\ UNCHANGED <<cameraOn, facingMode, flipPending, cameraPublished, cameraEnabled,
                   lastSent>>
    /\ UNCHANGED <<cookVars, acqVars, uiVars, envVars>>

FacingAfterToggle_Reset(f) == "environment"

(* toggleCamera does not call setFacingMode. *)
FacingAfterToggle(f) == f

(* toggleCamera up to its await: setCameraEnabled(true, opts) with the
   current facingMode, or setCameraEnabled(false). *)
ToggleCameraClick ==
    /\ Screen = "active"
    /\ BagCardinality(ops) < MaxOps
    /\ ops' = Suspend(Op("camera", "setCameraEnabled", ~cameraOn,
                         IF ~cameraOn THEN facingMode ELSE "environment",
                         isConnected(connectionState),
                         IF ~cameraOn THEN <<Capture(facingMode)>> ELSE <<>>))
    /\ facingMode' = FacingAfterToggle(facingMode)
    /\ lastSent' = <<>>
    /\ UNCHANGED <<isMuted, cameraOn, flipPending, cameraPublished, cameraEnabled,
                   lastDone>>
    /\ UNCHANGED <<cookVars, acqVars, uiVars, envVars>>

CameraOnAfterFailure_Optimistic(before, arg) == arg

(* catch (err) { console.error(...) }: cameraOn is not set. *)
CameraOnAfterFailure(before, arg) == before

(* setCameraEnabled answered.  On success: setCameraOn(newState) and the
   sendControl the handler captured; the render that follows runs the
   camera_state effect when cameraOn changed. *)
CameraDone(op, ok) ==
    /\ op.kind = "camera"
    /\ ops' = Resume(op)
    /\ lastDone' = Answered(op, ok)
    /\ IF ok
       THEN /\ cameraOn' = op.arg
            /\ cameraPublished' = (cameraPublished \/ op.arg)
            /\ cameraEnabled' = op.arg
            /\ lastSent' = (IF op.sends THEN <<CameraStateMsg(op.arg)>> ELSE <<>>)
                            \o CameraStateEffect(cameraOn, op.arg,
                                                 connectionState, connectionState)
       ELSE /\ cameraOn' = CameraOnAfterFailure(cameraOn, op.arg)
            /\ lastSent' = CameraStateEffect(cameraOn, cameraOn',
                                             connectionState, connectionState)
            /\ UNCHANGED <<cameraPublished, cameraEnabled>>
    /\ UNCHANGED <<isMuted, facingMode, flipPending>>
    /\ UNCHANGED <<cookVars, acqVars, uiVars, envVars>>

FlipEnabled_IgnoresPending == cameraOn

(* The flip button: disabled={!cameraOn || flipPending} (Cook.tsx 1182). *)
FlipEnabled == cameraOn /\ ~flipPending

(* The catch block with setCameraOn(false) in it. *)
CameraOnAfterFlipFailure_Disabled(before) == FALSE

(* catch (err) { console.error(...) } of flipCamera: cameraOn is not set. *)
CameraOnAfterFlipFailure(before) == before

FlipPendingAfter_SuccessOnly(ok) == ~ok

(* finally { setFlipPending(false) }, after the try block and after the
   catch block alike. *)
FlipPendingAfter(ok) == FALSE

(* flipCamera up to its first await. *)
FlipClick ==
    /\ Screen = "active"
    /\ FlipEnabled
    /\ BagCardinality(ops) < MaxOps
    /\ facingMode' = Flipped(facingMode)
    /\ lastSent' = <<>>
    /\ IF ~cameraOn
       THEN UNCHANGED <<flipPending, ops>>
       ELSE /\ flipPending' = TRUE
            /\ ops' = Suspend(
                   IF cameraPublished
                   THEN Op("flip", "unpublishTrack", TRUE, Flipped(facingMode), FALSE,
                           <<Unpublish>>)
                   ELSE Op("flip", "setCameraEnabled", TRUE, Flipped(facingMode), FALSE,
                           <<Capture(Flipped(facingMode))>>))
    /\ UNCHANGED <<isMuted, cameraOn, cameraPublished, cameraEnabled, lastDone>>
    /\ UNCHANGED <<cookVars, acqVars, uiVars, envVars>>

(* unpublishTrack answered: track.stop() and setCameraEnabled(true, opts)
   with the flipped facing mode; or the catch block and finally. *)
FlipUnpublishDone(op, ok) ==
    /\ op.kind = "flip" /\ op.pc = "unpublishTrack"
    /\ lastDone' = Answered(op, ok)
    /\ IF ok
       THEN /\ cameraPublished' = FALSE
            /\ cameraEnabled' = FALSE
            /\ ops' = Resume(op) (+) SetToBag({[op EXCEPT
                         !.pc = "setCameraEnabled",
                         !.log = @ \o <<Stop, Capture(op.facing)>>]})
            /\ UNCHANGED <<cameraOn, flipPending>>
       ELSE /\ ops' = Resume(op)
            /\ flipPending' = FlipPendingAfter(FALSE)
            /\ cameraOn' = CameraOnAfterFlipFailure(cameraOn)
            /\ UNCHANGED <<cameraPublished, cameraEnabled>>
    /\ lastSent' = CameraStateEffect(cameraOn, cameraOn', connectionState, connectionState)
    /\ UNCHANGED <<isMuted, facingMode>>
    /\ UNCHANGED <<cookVars, acqVars, uiVars, envVars>>

(* setCameraEnabled(true, opts) of flipCamera answered: setCameraOn(true),
   or the catch block; then finally { setFlipPending(false) }. *)
FlipCaptureDone(op, ok) ==
    /\ op.kind = "flip" /\ op.pc = "setCameraEnabled"
    /\ lastDone' = Answered(op, ok)
    /\ ops' = Resume(op)
    /\ flipPending' = FlipPendingAfter(ok)
    /\ IF ok
       THEN /\ cameraPublished' = TRUE
            /\ cameraEnabled' = TRUE
            /\ cameraOn' = TRUE
       ELSE /\ cameraOn' = CameraOnAfterFlipFailure(cameraOn)
            /\ UNCHANGED <<cameraPublished, cameraEnabled>>
    /\ lastSent' = CameraStateEffect(cameraOn, cameraOn', connectionState, connectionState)
    /\ UNCHANGED <<isMuted, facingMode>>
    /\ UNCHANGED <<cookVars, acqVars, uiVars, envVars>>

----------------------------------------------------------------------------
(* Pause, End and the auto-save listeners *)

PauseSnapshot_OneBased ==
    [currentStep |-> currentStep + 1, elapsedSeconds |-> elapsedSeconds, pausedAt |-> now]

(* The record the Pause button saves (Cook.tsx 1291-1296). *)
PauseSnapshot ==
    [currentStep |-> currentStep, elapsedSeconds |-> elapsedSeconds, pausedAt |-> now]

PersistSnapshot_MountValues ==
    [currentStep |-> initialStep(savedSession),
     elapsedSeconds |-> initialElapsed(savedSession), pausedAt |-> now]

(* The record persist() saves (Cook.tsx 518-523). *)
PersistSnapshot ==
    [currentStep |-> stepRef, elapsedSeconds |-> elapsedRef, pausedAt |-> now]

(* handlePauseSession / the tail of handleEndSession *)
LeaveAfterDelay ==
    /\ sessionEnded' = TRUE
    /\ navPending' = TRUE

(* Pause button: saveSession(...); onPause().  When setItem throws, the
   exception leaves the click handler and onPause() is not reached. *)
PauseClick(writeOk) ==
    /\ Screen = "active"
    /\ storage' = saveSession(storage, PauseSnapshot, writeOk)
    /\ IF saveSessionThrows(writeOk)
       THEN /\ uncaught' = TRUE
            /\ UNCHANGED <<sessionEnded, navPending, purged>>
       ELSE /\ LeaveAfterDelay
            /\ purged' = "no"
            /\ UNCHANGED uncaught
    /\ UNCHANGED <<mounted, loading, recipe, tokenData, fetchingToken, error, retryAttempt,
                   resumeFromStep, savedSession, fetchingTokenRef, cbResumeFromStep>>
    /\ UNCHANGED <<acqVars, uiVars, capVars, now>>

(* End button, confirmed: clearSavedSession(recipe.id); onEnd(), and
   handleEndSession clears once more. *)
EndClick ==
    /\ Screen = "active"
    /\ storage' = clearSavedSession(clearSavedSession(storage))
    /\ LeaveAfterDelay
    /\ UNCHANGED <<mounted, loading, recipe, tokenData, fetchingToken, error, retryAttempt,
                   resumeFromStep, savedSession, fetchingTokenRef, cbResumeFromStep>>
    /\ UNCHANGED <<acqVars, uiVars, capVars, now, uncaught, purged>>

(* visibilitychange with visibilityState "hidden": persist(). *)
PageHidden(writeOk) ==
    /\ Screen = "active"
    /\ storage' = saveSession(storage, PersistSnapshot, writeOk)
    /\ uncaught' = (uncaught \/ saveSessionThrows(writeOk))
    /\ purged' = IF saveSessionThrows(writeOk) THEN purged ELSE "no"
    /\ UNCHANGED <<cookVars, acqVars, uiVars, capVars, now>>

(* beforeunload: persist(), and the page goes away. *)
PageUnload(writeOk) ==
    /\ Screen = "active"
    /\ storage' = saveSession(storage, PersistSnapshot, writeOk)
    /\ uncaught' = (uncaught \/ saveSessionThrows(writeOk))
    /\ purged' = IF saveSessionThrows(writeOk) THEN purged ELSE "no"
    /\ FreshCook(FALSE)
    /\ FreshUI
    /\ orphans' = <<>>
    /\ UNCHANGED now

----------------------------------------------------------------------------
(* Leaving and re-entering the screen *)

(* The timer of handleEndSession / handlePauseSession fires: navigate. *)
NavigateFire ==
    /\ mounted /\ navPending
    /\ FreshCook(FALSE)
    /\ FreshUI
    /\ UNCHANGED <<orphans, envVars>>

(* "Back to Recipe" (Cook.tsx 367-374), disabled while fetchingToken. *)
BackToRecipeClick ==
    /\ StartControlsEnabled
    /\ FreshCook(FALSE)
    /\ FreshUI
    /\ UNCHANGED <<orphans, envVars>>

(* Error screen: "Go Back" (navigate(-1)).  The screen is left only with no
   activation of startVoiceSession still running. *)
ErrorGoBack ==
    /\ Screen = "error"
    /\ acq = <<>>
    /\ FreshCook(FALSE)
    /\ FreshUI
    /\ UNCHANGED <<orphans, envVars>>

(* Error screen: "Try Again" (window.location.reload()). *)
ErrorTryAgain ==
    /\ Screen = "error"
    /\ acq = <<>>
    /\ FreshCook(TRUE)
    /\ FreshUI
    /\ orphans' = <<>>
    /\ uncaught' = FALSE
    /\ UNCHANGED <<storage, now, purged>>

(* The route /cook/:id is opened again. *)
Open ==
    /\ ~mounted
    /\ FreshCook(TRUE)
    /\ FreshUI
    /\ UNCHANGED orphans
    /\ uncaught' = FALSE
    /\ UNCHANGED <<storage, now, purged>>

(* The browser leaves the route (history back, another link) at any moment,
   also while startVoiceSession is awaiting: Cook unmounts, and nothing
   aborts the activations that have not returned.  late is the answer such an
   activation received last after the screen was left. *)
LeaveScreen ==
    /\ mounted
    /\ orphans' = orphans \o [k \in DOMAIN acq |->
                                [pc |-> acq[k].pc, attempt |-> acq[k].attempt,
                                 late |-> Null]]
    /\ FreshCook(FALSE)
    /\ FreshUI
    /\ UNCHANGED envVars

SettersReach_AnyInstance(alive) == TRUE

(* The setters and fetchingTokenRef of startVoiceSession belong to the Cook
   instance that created the callback (useState / useRef, Cook.tsx 85-96):
   once that instance is unmounted they change nothing that is rendered. *)
SettersReach(alive) == alive

Deliver(alive, new, old) == IF SettersReach(alive) THEN new ELSE old

(* finally of an activation whose instance is gone. *)
OrphanFinally ==
    /\ fetchingTokenRef' = Deliver(FALSE, GuardAfterFinally, fetchingTokenRef)
    /\ fetchingToken' = Deliver(FALSE, FALSE, fetchingToken)

(* The token arrives for an activation whose instance is gone. *)
OrphanTokenSuccess(i) ==
    /\ orphans[i].pc = "inflight"
    /\ getLiveToken("ok").ok
    /\ tokenData' = Deliver(FALSE, Some("token"), tokenData)
    /\ OrphanFinally
    /\ orphans' = [orphans EXCEPT ![i].pc = "returned", ![i].late = Some("ok")]
    /\ UNCHANGED <<mounted, loading, recipe, error, sessionEnded, retryAttempt,
                   resumeFromStep, savedSession, cbResumeFromStep, navPending>>
    /\ UIFollowsScreen
    /\ UNCHANGED <<acq, failedRuns, envVars>>

(* The request of such an activation fails: the catch block. *)
OrphanTokenFailure(i, kind) ==
    /\ orphans[i].pc = "inflight"
    /\ ~getLiveToken(kind).ok
    /\ LET err == getLiveToken(kind)
           msg == IF err.status = Some(RateLimitStatus) THEN RateLimitMsg
                  ELSE IF err.message # Null /\ Val(err.message) # ""
                  THEN Val(err.message) ELSE ExhaustedMsg
       IN
       IF err.status = Some(RateLimitStatus) \/ orphans[i].attempt = FinalAttempt
       THEN /\ error' = Deliver(FALSE, Some(msg), error)
            /\ OrphanFinally
            /\ orphans' = [orphans EXCEPT ![i].pc = "returned", ![i].late = Some(kind)]
       ELSE /\ orphans' = [orphans EXCEPT ![i].pc = "backoff", ![i].late = Some(kind)]
            /\ UNCHANGED <<error, fetchingTokenRef, fetchingToken>>
    /\ UNCHANGED <<mounted, loading, recipe, tokenData, sessionEnded, retryAttempt,
                   resumeFromStep, savedSession, cbResumeFromStep, navPending>>
    /\ UIFollowsScreen
    /\ UNCHANGED <<acq, failedRuns, envVars>>

(* Its backoff timer fires: setRetryAttempt and the next request. *)
OrphanBackoffElapsed(i) ==
    /\ orphans[i].pc = "backoff"
    /\ retryAttempt' = Deliver(FALSE, orphans[i].attempt + 1, retryAttempt)
    /\ orphans' = [orphans EXCEPT ![i].pc = "inflight", ![i].attempt = @ + 1]
    /\ UNCHANGED <<mounted, loading, recipe, tokenData, fetchingToken, error, sessionEnded,
                   resumeFromStep, savedSession, fetchingTokenRef, cbResumeFromStep,
                   navPending>>
    /\ UNCHANGED <<acq, failedRuns, uiVars, capVars, envVars>>

(* Date.now() is the wall clock: it may move either way between callbacks. *)
ClockChange ==
    /\ \E t \in ClockValues \ {now} : now' = t
    /\ UNCHANGED <<cookVars, acqVars, uiVars, capVars, storage, uncaught, purged>>

----------------------------------------------------------------------------

Next ==
    \/ BootstrapOk
    \/ BootstrapFail
    \/ StartClick
    \/ ResumeClick
    \/ StartFreshClick
    \/ \E i \in DOMAIN acq : TokenSuccess(i)
    \/ \E i \in DOMAIN acq : \E kind \in ResponseKinds : TokenFailure(i, kind)
    \/ \E i \in DOMAIN acq : BackoffElapsed(i)
    \/ PrevStep
    \/ NextStep
    \/ \E s \in ConnectionStates : ConnectionChange(s)
    \/ Tick
    \/ \E writeOk \in BOOLEAN : PauseClick(writeOk)
    \/ EndClick
    \/ \E writeOk \in BOOLEAN : PageHidden(writeOk)
    \/ \E writeOk \in BOOLEAN : PageUnload(writeOk)
    \/ NavigateFire
    \/ BackToRecipeClick
    \/ ErrorGoBack
    \/ ErrorTryAgain
    \/ Open
    \/ ClockChange

Spec == Init /\ [][Next]_vars

(* The capture controls of one active session: the state in which CookUI is
   first rendered after Start, then the device handlers and the connection. *)
InitCapture ==
    /\ mounted = TRUE
    /\ loading = FALSE
    /\ recipe = TRUE
    /\ tokenData = Some("token")
    /\ fetchingToken = FALSE
    /\ error = Null
    /\ sessionEnded = FALSE
    /\ retryAttempt = 1
    /\ resumeFromStep = Null
    /\ savedSession = Null
    /\ fetchingTokenRef = FALSE
    /\ cbResumeFromStep = Null
    /\ navPending = FALSE
    /\ acq = <<>>
    /\ failedRuns = <<>>
    /\ orphans = <<>>
    /\ currentStep = 0
    /\ elapsedSeconds = 0
    /\ stepRef = 0
    /\ elapsedRef = 0
    /\ connectionState = "disconnected"
    /\ timerActive = FALSE
    /\ intervals = 0
    /\ timerStarts = 0
    /\ agentState = "idle"
    /\ isMuted = FALSE
    /\ cameraOn = FALSE
    /\ facingMode = "environment"
    /\ flipPending = FALSE
    /\ cameraPublished = FALSE
    /\ cameraEnabled = FALSE
    /\ ops = EmptyBag
    /\ lastSent = <<>>
    /\ lastDone = Null
    /\ storage = Null
    /\ now = 0
    /\ uncaught = FALSE
    /\ purged = "no"

NextCapture ==
    \/ \E s \in ConnectionStates : ConnectionChange(s)
    \/ ToggleMuteClick
    \/ \E op \in BagToSet(ops) : \E ok \in BOOLEAN : MicDone(op, ok)
    \/ ToggleCameraClick
    \/ \E op \in BagToSet(ops) : \E ok \in BOOLEAN : CameraDone(op, ok)
    \/ FlipClick
    \/ \E op \in BagToSet(ops) : \E ok \in BOOLEAN : FlipUnpublishDone(op, ok)
    \/ \E op \in BagToSet(ops) : \E ok \in BOOLEAN : FlipCaptureDone(op, ok)

SpecCapture == InitCapture /\ [][NextCapture]_vars

(* SpecCapture with every device call of a flip answered in the end: the room
   resolves or rejects each promise flipCamera awaits. *)
SpecCaptureFair ==
    /\ SpecCapture
    /\ WF_vars(\E op \in BagToSet(ops) : \E ok \in BOOLEAN : FlipUnpublishDone(op, ok))
    /\ WF_vars(\E op \in BagToSet(ops) : \E ok \in BOOLEAN : FlipCaptureDone(op, ok))

(* The screen opened with nothing stored, left while acquisitions are in
   flight, and opened again. *)
InitLeave ==
    /\ Init
    /\ storage = Null
    /\ now = 0

NextLeave ==
    \/ BootstrapOk
    \/ StartClick
    \/ \E i \in DOMAIN acq : TokenSuccess(i)
    \/ \E i \in DOMAIN acq : \E kind \in ResponseKinds : TokenFailure(i, kind)
    \/ \E i \in DOMAIN acq : BackoffElapsed(i)
    \/ LeaveScreen
    \/ Open
    \/ \E i \in DOMAIN orphans : OrphanTokenSuccess(i)
    \/ \E i \in DOMAIN orphans : \E kind \in ResponseKinds : OrphanTokenFailure(i, kind)
    \/ \E i \in DOMAIN orphans : OrphanBackoffElapsed(i)

SpecLeave == InitLeave /\ [][NextLeave]_vars

(* One active session seen through its connection, its timer and the
   assistant: the connection changes as in ConnectionChange, and every
   setInterval call of the timer effect is counted, up to MaxTimers. *)
CountedConnectionChange(s) ==
    /\ ConnectionStep(s)
    /\ (isConnected(s) /\ ~isConnected(connectionState)) => timerStarts < MaxTimers
    /\ timerStarts' = IF isConnected(s) /\ ~isConnected(connectionState)
                      THEN timerStarts + 1 ELSE timerStarts

NextSession ==
    \/ \E s \in ConnectionStates : CountedConnectionChange(s)
    \/ \E a \in AgentStates : AgentChange(a)
    \/ Tick
    \/ PrevStep
    \/ NextStep

SpecSession == InitCapture /\ [][NextSession]_vars


----------------------------------------------------------------------------
(* Reading the request logs *)

Kinds(log) == [k \in DOMAIN log |-> log[k][1]]

TransientKinds == {"networkError", "http500"}

AllAnswersTransient(log) ==
    \A k \in DOMAIN log : log[k][1] = "resp" => log[k][2] \in TransientKinds

AnsweredRateLimited(log) ==
    \E k \in DOMAIN log : log[k][1] = "resp" /\ log[k][2] = "http429"

CountOf(log, kind) == Cardinality({k \in DOMAIN log : log[k][1] = kind})

RequestsCarry(log, resume) ==
    \A k \in DOMAIN log : log[k][1] = "req" => log[k][2] = resume

AnyStartClick == StartClick \/ ResumeClick \/ StartFreshClick

----------------------------------------------------------------------------
(* Token acquisition *)

(* C1: an acquisition whose every token request failed with a transient
   (not rate-limited) error made exactly 3 requests, waited 1000 ms after the
   first failure and 2000 ms after the second, did not wait after the third,
   and ended with an error message set. *)
C1_TransientFailuresThreeAttempts ==
    \A r \in DOMAIN failedRuns :
        AllAnswersTransient(failedRuns[r].log) =>
            /\ Kinds(failedRuns[r].log)
                 = <<"req", "resp", "wait", "req", "resp", "wait", "req", "resp">>
            /\ failedRuns[r].log[3] = Wait(1000)
            /\ failedRuns[r].log[6] = Wait(2000)
            /\ error # Null

C1_Witness ==
    \E r \in DOMAIN failedRuns :
        /\ AllAnswersTransient(failedRuns[r].log)
        /\ CountOf(failedRuns[r].log, "req") = 3
        /\ error # Null

(* C2: an acquisition one of whose requests was answered 429 made exactly one
   request and no backoff wait, and once it has ended the rate-limit message
   is the error shown. *)
C2_RateLimitStopsAfterOneRequest ==
    /\ \A i \in DOMAIN acq :
           AnsweredRateLimited(acq[i].log) =>
               /\ CountOf(acq[i].log, "req") = 1
               /\ CountOf(acq[i].log, "wait") = 0
    /\ \A r \in DOMAIN failedRuns :
           AnsweredRateLimited(failedRuns[r].log) =>
               /\ CountOf(failedRuns[r].log, "req") = 1
               /\ CountOf(failedRuns[r].log, "wait") = 0
               /\ error = Some(RateLimitMsg)

(* C3: at most one acquisition sequence (request in flight or backoff wait
   pending) exists at any time, and a start, resume or start-fresh call made
   while one is running issues no token request. *)
C3_SingleAcquisition ==
    /\ [](Len(acq) <= 1)
    /\ [][AnyStartClick /\ acq # <<>> => acq' = acq]_vars

(* Start Fresh was called while the acquisition started by Resume is running. *)
C3_Witness ==
    /\ Len(acq) = 1
    /\ acq[1].startedBy = "resume"
    /\ savedSession = Null
    /\ fetchingTokenRef

(* C4: every token request of an acquisition started by Resume carries
   resume_from_step = (currentStep of the offered checkpoint) + 1. *)
C4_ResumeRequestsCarryStep ==
    /\ \A i \in DOMAIN acq :
           acq[i].startedBy = "resume" =>
               RequestsCarry(acq[i].log, Some(Val(acq[i].offered) + 1))
    /\ \A r \in DOMAIN failedRuns :
           failedRuns[r].startedBy = "resume" =>
               RequestsCarry(failedRuns[r].log, Some(Val(failedRuns[r].offered) + 1))

(* C5: after an acquisition ended in a terminal failure the awaiting-start
   screen is shown, with the error message and the start controls enabled. *)
C5_FailureReturnsToAwaitingStart ==
    (mounted /\ failedRuns # <<>> /\ acq = <<>>) =>
        /\ StartControlsEnabled
        /\ error # Null

(* C6: whenever no acquisition is running the guard flag is false (it is
   released on every way an acquisition ends), and a start made then issues
   a token request. *)
C6_GuardReleased ==
    /\ [](acq = <<>> => ~fetchingTokenRef)
    /\ [][AnyStartClick /\ acq = <<>> =>
            /\ Len(acq') = 1
            /\ acq'[1].pc = "inflight"
            /\ CountOf(acq'[1].log, "req") = 1]_vars

C6_Witness ==
    /\ failedRuns # <<>>
    /\ acq = <<>>
    /\ ~fetchingTokenRef
    /\ ~fetchingToken

----------------------------------------------------------------------------
(* Checkpoint store *)

(* C7: a load that finds a record older than SESSION_EXPIRY_MS returns null
   and removes the record; until something is saved again the record stays
   absent and every later load returns null, whatever the clock shows. *)
C7_ExpiredCheckpointPurged ==
    /\ [](purged # "no" => storage = Null)
    /\ [][(BootstrapOk /\ storage # Null
             /\ now - Val(storage).pausedAt > SESSION_EXPIRY_MS) =>
            (savedSession' = Null /\ storage' = Null)]_vars
    /\ [][(BootstrapOk /\ purged # "no") => savedSession' = Null]_vars

(* An expired record was purged by one load, and a later load has run. *)
C7_Witness ==
    /\ purged = "reloaded"
    /\ Screen = "awaitingStart"
    /\ savedSession = Null
    /\ storage = Null

(* C8: saveSession never lets an exception out: no handler that saves ends
   with an uncaught exception. *)
C8_SaveNeverThrows == ~uncaught

(* C9: the confirmed End click leaves no checkpoint of the recipe in storage,
   whatever was stored before. *)
C9_EndDeletesCheckpoint == [][EndClick => storage' = Null]_vars

(* End was confirmed in a session resumed from a checkpoint. *)
C9_Witness ==
    /\ Screen = "active"
    /\ sessionEnded
    /\ savedSession # Null
    /\ storage = Null

(* C10: a Pause click whose write succeeds stores the step index and the
   elapsed seconds of that moment, and no Pause click ends the session
   without that record stored. *)
C10_PauseStoresCurrentProgress ==
    /\ [][PauseClick(TRUE) =>
            storage' = Some([currentStep |-> currentStep,
                             elapsedSeconds |-> elapsedSeconds,
                             pausedAt |-> now])]_vars
    /\ [][((\E writeOk \in BOOLEAN : PauseClick(writeOk)) /\ ~sessionEnded /\ sessionEnded') =>
            (/\ storage' # Null
             /\ Val(storage').currentStep = currentStep
             /\ Val(storage').elapsedSeconds = elapsedSeconds)]_vars

(* A session started from step 0 and 0 seconds was paused after progress. *)
C10_Witness ==
    /\ Screen = "active"
    /\ savedSession = Null
    /\ sessionEnded
    /\ navPending
    /\ storage # Null
    /\ currentStep > 0
    /\ elapsedSeconds > 0
    /\ Val(storage).currentStep = currentStep
    /\ Val(storage).elapsedSeconds = elapsedSeconds

(* C11: while the session is active, a page-hidden or page-unload event whose
   write succeeds stores the step index and the elapsed seconds of that
   moment, stamped with the clock; a failed write leaves the store as it was;
   page-hidden does not pause or end the session. *)
C11_AutoSaveStoresLatestProgress ==
    [][\A writeOk \in BOOLEAN :
          (PageHidden(writeOk) \/ PageUnload(writeOk)) =>
              /\ storage' = IF writeOk
                            THEN Some([currentStep |-> currentStep,
                                       elapsedSeconds |-> elapsedSeconds,
                                       pausedAt |-> now])
                            ELSE storage
              /\ PageHidden(writeOk) => (sessionEnded' = sessionEnded /\ Screen = "active")]_vars

(* The page was hidden in a session started from 0 that had advanced a step
   and counted a second, and nobody paused. *)
C11_Witness ==
    /\ Screen = "active"
    /\ ~sessionEnded
    /\ savedSession = Null
    /\ currentStep > 0
    /\ elapsedSeconds > 0
    /\ storage = Some([currentStep |-> currentStep, elapsedSeconds |-> elapsedSeconds,
                       pausedAt |-> now])

----------------------------------------------------------------------------
(* Active session: seed and elapsed counter *)

(* C12: when a token arrives, the session starts at the offered checkpoint's
   step index and elapsed seconds if it was started by Resume (and Start
   Fresh was not chosen after it), and at step 0 with 0 seconds if it was
   started by Start or Start Fresh. *)
C12_ActiveSeededFromChoice ==
    [][\A i \in DOMAIN acq :
          TokenSuccess(i) =>
              /\ Screen' = "active"
              /\ IF acq[i].startedBy = "resume" /\ savedSession # Null
                 THEN /\ Val(savedSession).currentStep = Val(acq[i].offered)
                      /\ currentStep' = Val(acq[i].offered)
                      /\ elapsedSeconds' = Val(savedSession).elapsedSeconds
                 ELSE /\ currentStep' = 0
                      /\ elapsedSeconds' = 0]_vars

(* A resumed session as CookUI first renders it. *)
C12_Witness ==
    /\ Screen = "active"
    /\ resumeFromStep # Null
    /\ savedSession # Null
    /\ connectionState = "disconnected"
    /\ currentStep = Val(savedSession).currentStep
    /\ elapsedSeconds = Val(savedSession).elapsedSeconds
    /\ currentStep > 0
    /\ elapsedSeconds > 0

(* C13: in an active session the elapsed counter changes only by one second
   at a time and only while the connection state is "connected"; the timer
   runs in no other connection state. *)
C13_ElapsedCountsOnlyConnected ==
    /\ [](timerActive => connectionState = "connected")
    /\ [][(Screen = "active" /\ Screen' = "active" /\ elapsedSeconds' # elapsedSeconds) =>
            (/\ connectionState = "connected"
             /\ elapsedSeconds' = elapsedSeconds + 1)]_vars

(* A second was counted, then the connection dropped and the counter stands. *)
C13_Witness ==
    /\ Screen = "active"
    /\ savedSession = Null
    /\ elapsedSeconds > 0
    /\ connectionState = "reconnecting"
    /\ ~timerActive

----------------------------------------------------------------------------
(* Reading the suspended device calls *)

Pending == BagToSet(ops)

FlipsInProgress ==
    BagCardinality([op \in {o \in Pending : o.kind = "flip"} |-> ops[op]])

FlipAnswered(ok) ==
    \E op \in Pending : FlipUnpublishDone(op, ok) \/ FlipCaptureDone(op, ok)

CameraAnswered(ok) == \E op \in Pending : CameraDone(op, ok)

(* The steps after which camera_state messages can be sent. *)
SendingStep ==
    \/ \E s \in ConnectionStates : ConnectionChange(s)
    \/ \E ok \in BOOLEAN : CameraAnswered(ok) \/ FlipAnswered(ok)

----------------------------------------------------------------------------
(* Device capture *)

(* C14: a flip started while the camera is shown as on, and carried through,
   has made exactly the calls unpublish, stop, capture with the flipped
   facing mode, in this order, and ends with the new track published; a flip
   while the camera is off makes no device call and changes only the stored
   facing mode. *)
C14_FlipSequenceInOrder ==
    /\ [][\A op \in Pending :
            FlipCaptureDone(op, TRUE) =>
                /\ op.log = <<Unpublish, Stop, Capture(facingMode)>>
                /\ cameraPublished']_vars
    /\ [][(FlipClick /\ ~cameraOn) =>
            (/\ ops' = ops
             /\ facingMode' = Flipped(facingMode)
             /\ UNCHANGED <<isMuted, cameraOn, flipPending, cameraPublished>>)]_vars

(* C15: when a step of a flip fails and the flip ends, the displayed camera
   state is off; the camera is never shown as on with no flip in progress and
   no camera track published. *)
C15_FailedFlipShowsCameraOff ==
    /\ []((cameraOn /\ ~flipPending) => cameraPublished)
    /\ [][FlipAnswered(FALSE) => ~cameraOn']_vars

(* C16: at most one flipCamera activation is in progress at any time; while
   one is, the flip control is disabled and flipPending is set. *)
C16_SingleFlipInProgress ==
    /\ [](FlipsInProgress <= 1)
    /\ [](FlipsInProgress = 1 => (flipPending /\ ~FlipEnabled))
    /\ [][FlipClick => FlipsInProgress = 0]_vars

(* A flip waits for its capture request while the bag of suspended calls
   still has room for another activation. *)
C16_Witness ==
    /\ cameraOn
    /\ flipPending
    /\ BagCardinality(ops) < MaxOps
    /\ \E op \in Pending : op.kind = "flip" /\ op.pc = "setCameraEnabled"

(* C17: a step that changes the displayed camera state while connected sends
   exactly one camera_state message, carrying the new state; a step that
   leaves the camera state unchanged sends none. *)
C17_OneMessagePerTransition ==
    /\ [][(cameraOn' # cameraOn /\ isConnected(connectionState')) =>
            lastSent' = <<CameraStateMsg(cameraOn')>>]_vars
    /\ [][(SendingStep /\ cameraOn' = cameraOn) => lastSent' = <<>>]_vars

(* C18 as claimed: after a failed request to enable the camera the displayed
   camera state is off, and no camera_state message with on = TRUE was sent
   for it. *)
C18_FailedEnableShowsCameraOff ==
    [][\A op \in Pending :
          (CameraDone(op, FALSE) /\ op.arg) =>
              /\ ~cameraOn'
              /\ \A k \in DOMAIN lastSent' : ~lastSent'[k].on]_vars

(* C18 as amended: a failed request to enable the camera leaves the displayed
   camera state as it was when the failure arrived, and sends no camera_state
   message. *)
C18_FailedEnableChangesNothing ==
    [][\A op \in Pending :
          (CameraDone(op, FALSE) /\ op.arg) =>
              /\ cameraOn' = cameraOn
              /\ cameraPublished' = cameraPublished
              /\ lastSent' = <<>>]_vars

(* The only enable request failed while connected: the camera is shown off. *)
C18_Witness ==
    /\ lastDone = Some([kind |-> "camera", pc |-> "setCameraEnabled", arg |-> TRUE,
                        ok |-> FALSE])
    /\ isConnected(connectionState)
    /\ ~cameraOn
    /\ lastSent = <<>>

(* C19: a failed microphone call leaves the muted flag as it was, and the
   flag changes only in the step that handles a successful call. *)
C19_MutedChangesOnlyOnSuccess ==
    /\ [][\A op \in Pending : MicDone(op, FALSE) => isMuted' = isMuted]_vars
    /\ [][isMuted' # isMuted => \E op \in Pending : MicDone(op, TRUE)]_vars

(* The microphone was muted by one call, and the call to unmute it failed. *)
C19_Witness ==
    /\ lastDone = Some([kind |-> "mic", pc |-> "setMicrophoneEnabled", arg |-> TRUE,
                        ok |-> FALSE])
    /\ isMuted

(* C20: only a flip changes the stored facing mode, to the other mode; camera
   toggles and their answers leave it alone, and every request to enable the
   camera asks for the stored facing mode. *)
C20_FacingModeSurvivesToggles ==
    /\ [][facingMode' # facingMode => (FlipClick /\ facingMode' = Flipped(facingMode))]_vars
    /\ [][ToggleCameraClick =>
            (/\ facingMode' = facingMode
             /\ ~cameraOn => \E op \in BagToSet(ops') :
                                 /\ op.kind = "camera" /\ op.arg
                                 /\ op.facing = facingMode
                                 /\ op.log = <<Capture(facingMode)>>)]_vars
    /\ [][(\E ok \in BOOLEAN : CameraAnswered(ok)) => facingMode' = facingMode]_vars

(* The camera was flipped to "user" and turned off, and is being turned on. *)
C20_Witness ==
    /\ ~cameraOn
    /\ ~flipPending
    /\ BagCardinality(ops) = 1
    /\ cameraPublished
    /\ facingMode = "user"
    /\ \E op \in Pending : op.kind = "camera" /\ op.arg /\ op.log = <<Capture("user")>>

----------------------------------------------------------------------------
(* Step cursor and the values a checkpoint holds *)

(* C21: the step index always lies in 0 .. total - 1; retreat at index 0 and
   advance at index total - 1 leave it unchanged, and every other retreat or
   advance moves it by exactly one (no wrap-around). *)
C21_StepIndexClamped ==
    /\ [](currentStep \in 0 .. (TotalSteps - 1))
    /\ [][PrevStep => currentStep' = IF currentStep = 0 THEN 0 ELSE currentStep - 1]_vars
    /\ [][NextStep => currentStep' = IF currentStep = TotalSteps - 1
                                     THEN currentStep ELSE currentStep + 1]_vars

(* A session started at step 0 stands at the last step with the refs copied. *)
C21_Witness ==
    /\ Screen = "active"
    /\ savedSession = Null
    /\ currentStep = TotalSteps - 1
    /\ stepRef = TotalSteps - 1

AnySave(writeOk) == PauseClick(writeOk) \/ PageHidden(writeOk) \/ PageUnload(writeOk)

(* C22: every record a Pause click, a page-hidden or a page-unload event
   writes has elapsedSeconds >= 0 and a currentStep in 0 .. total - 1, in
   sessions started fresh and in sessions resumed from a checkpoint. *)
C22_WrittenCheckpointInRange ==
    [][AnySave(TRUE) =>
          /\ storage' # Null
          /\ Val(storage').elapsedSeconds >= 0
          /\ Val(storage').currentStep \in 0 .. (TotalSteps - 1)]_vars

(* A session resumed from a checkpoint of the last step wrote a new record
   after it had gone back a step and counted a second. *)
C22_Witness ==
    /\ Screen = "active"
    /\ savedSession # Null
    /\ Val(savedSession).currentStep = TotalSteps - 1
    /\ storage # Null
    /\ storage # savedSession
    /\ Val(storage).currentStep = currentStep
    /\ Val(storage).elapsedSeconds = elapsedSeconds
    /\ currentStep < Val(savedSession).currentStep
    /\ elapsedSeconds > Val(savedSession).elapsedSeconds

(* C29: once End has been confirmed (the session is ended and the record is
   gone), no step taken while the screen is still mounted stores a record
   again: page-hidden and page-unload in that window write nothing. *)
C29_NoCheckpointAfterEnd ==
    [][(Screen = "active" /\ sessionEnded /\ storage = Null) => storage' = Null]_vars

----------------------------------------------------------------------------
(* Elapsed timer *)

(* C24: at most one interval of the timer effect is running at any time, and
   one is running exactly while the connection state is "connected": every
   change of the connected flag clears the running interval before a new one
   is started, through any sequence of connection-state changes. *)
C24_AtMostOneTimer ==
    /\ [](intervals <= 1)
    /\ [](intervals = IF isConnected(connectionState) THEN 1 ELSE 0)
    /\ [][isConnected(connectionState') # isConnected(connectionState) =>
            intervals' = IF isConnected(connectionState') THEN 1 ELSE 0]_vars

(* The connection was lost and came back: the second interval is the only
   one running. *)
C24_Witness ==
    /\ connectionState = "connected"
    /\ timerStarts = 2
    /\ timerActive
    /\ intervals = 1

(* C25: once the session has been paused or ended, no tick increments the
   elapsed counter of the screen that is still mounted. *)
C25_NoTickAfterLeaving ==
    [][(Screen = "active" /\ sessionEnded /\ Screen' = "active") =>
          elapsedSeconds' = elapsedSeconds]_vars

----------------------------------------------------------------------------
(* Status card *)

(* C23 as claimed: in every combination of connection state and assistant
   state the activity row shows exactly one label. *)
C23_ExactlyOneActivityLabel ==
    Screen = "active" => Cardinality(ActivityLabels(connectionState, agentState)) = 1

(* C23 as amended: the activity row shows at most one label, chosen by the
   priority speaking > listening > thinking > idle while connected, and no
   label when the assistant is idle and the room is not connected; the
   connection row then reads "Connecting". *)
C23_AtMostOneActivityLabel ==
    Screen = "active" =>
        /\ ActivityLabels(connectionState, agentState)
             = IF agentState = "speaking" THEN {"YesChef is speaking"}
               ELSE IF agentState = "listening" THEN {"Listening"}
               ELSE IF agentState = "thinking" THEN {"Thinking"}
               ELSE IF connectionState = "connected" THEN {"Waiting for YesChef"}
               ELSE {}
        /\ Cardinality(ActivityLabels(connectionState, agentState)) <= 1
        /\ ActivityLabels(connectionState, agentState) = {} =>
               ConnectionLabel(connectionState) = "Connecting"

(* The room was connected and is reconnecting while the assistant is idle:
   the activity row is empty. *)
C23_Witness ==
    /\ Screen = "active"
    /\ connectionState = "reconnecting"
    /\ timerStarts = 1
    /\ agentState = "idle"
    /\ ActivityLabels(connectionState, agentState) = {}

----------------------------------------------------------------------------
(* Control channel and device state *)

CameraOpsInFlight == {op \in Pending : op.kind \in {"camera", "flip"}}

(* C26: no camera_state message is sent while the connection state is not
   "connected", also when the connection dropped while the camera call that
   leads to the message was awaiting the device. *)
C26_NoSendWhileNotConnected ==
    lastSent # <<>> => isConnected(connectionState)

(* C30: whenever no camera toggle and no flip is waiting for the device, the
   displayed camera state equals whether the device camera is enabled with a
   published track. *)
C30_DisplayedCameraMatchesDevice ==
    CameraOpsInFlight = {} => cameraOn = cameraEnabled

(* The step in which a flipCamera activation returns. *)
FlipEnds ==
    \E op \in Pending :
        \/ FlipUnpublishDone(op, FALSE)
        \/ \E ok \in BOOLEAN : FlipCaptureDone(op, ok)

(* C27: when every device call of a flip is answered in the end, a set
   flip-in-progress flag is cleared in the end, whether the flip succeeds or
   one of its steps fails; the step in which a flip returns clears it. *)
C27_FlipPendingCleared ==
    /\ flipPending ~> ~flipPending
    /\ [][FlipEnds => ~flipPending']_vars

(* A flip whose capture request failed has returned and the flag is clear. *)
C27_Witness ==
    /\ ~flipPending
    /\ FlipsInProgress = 0
    /\ lastDone = Some([kind |-> "flip", pc |-> "setCameraEnabled", arg |-> TRUE,
                        ok |-> FALSE])

----------------------------------------------------------------------------
(* Acquisitions that outlive the screen *)

OrphanStep ==
    \E i \in DOMAIN orphans :
        \/ OrphanTokenSuccess(i)
        \/ \E kind \in ResponseKinds : OrphanTokenFailure(i, kind)
        \/ OrphanBackoffElapsed(i)

(* C28: a result that arrives for an acquisition whose screen was torn down
   changes no state of the screen that exists then (none, or one opened
   since): no session becomes active, no error is shown, and the guard, the
   fetching flag and the attempt counter stay as they are. *)
C28_LateResultIgnored ==
    [][OrphanStep =>
          /\ Screen' = Screen
          /\ UNCHANGED <<cookVars, acq, failedRuns, uiVars, capVars, envVars>>]_vars

(* The token arrived after the screen was left; the screen opened since is
   still waiting for its own start, with no token and no error. *)
C28_Witness ==
    /\ Screen = "awaitingStart"
    /\ tokenData = Null
    /\ error = Null
    /\ \E i \in DOMAIN orphans :
           /\ orphans[i].pc = "returned"
           /\ orphans[i].late = Some("ok")

============================================================================
